---- MODULE Spec2Model ----
(***************************************************************************)
(* Model of the supply validator, src/metadata/validate_supply.py.         *)
(*                                                                         *)
(* One run of main() is a sequential pass over two directories.  The       *)
(* inputs of a run (directory listings, file contents, command line) are   *)
(* fixed by Init; the actions are the successive blocks of main().         *)
(*                                                                         *)
(* File names, paths and the strings of the "image" field are sequences of *)
(* characters, so that the regular expression, the suffix test, int(),     *)
(* str(), lower() and endswith() are computed rather than assumed, over    *)
(* the whole of Unicode: decimal digits of every script, lower-casing of   *)
(* every cased letter.                                                     *)
(* Python's None is the empty sequence <<>>, a present value v is <<v>>.   *)
(* Standard output is UTF-8 with the strict error handler, as the test of  *)
(* the repository sets it up: printing a string that holds a surrogate     *)
(* (a path, a duplicate file name, an "image" value) raises                *)
(* UnicodeEncodeError, and an uncaught exception ends the process with     *)
(* status 1.                                                               *)
(***************************************************************************)
EXTENDS Integers, Sequences, FiniteSets

\* ------------------------------------------------------------------ bounds
\* Identifiers of the numbered files of the supply runs are 0..MaxTokenId.
MaxTokenId == 2
\* Identifiers of the numbered files of the file-content runs are 0..MaxFileId.
MaxFileId == 1

\* ------------------------------------------------------------------- state
VARIABLES
    imagesDir,      \* input: the names of the files of --images-dir
    metadataDir,    \* input: file name -> document, the files of --metadata-dir
    args,           \* input: [min_id, max_id, check_image_field]
    cwd,            \* input: the working directory, which --images-dir "." resolves to
    pc,             \* the block of main() that runs next
    img_dupes, meta_dupes,
    image_ids, meta_ids,
    missing_images, missing_meta, common,
    min_id, max_id, expected, gap_images, gap_meta,
    bad_json, mismatches,
    pos,            \* the loops' position in common
    opened,         \* the metadata files opened so far, in order
    output,         \* the messages printed so far, in order
    exit_code       \* None while running, Some(status) after sys.exit

inputs == <<imagesDir, metadataDir, args, cwd>>
scanned == <<img_dupes, meta_dupes, image_ids, meta_ids>>
reconciled == <<missing_images, missing_meta, common, min_id, max_id, expected,
                gap_images, gap_meta>>
vars == <<inputs, pc, scanned, reconciled, bad_json, mismatches, pos, opened,
          output, exit_code>>

\* ------------------------------------------------------ strings and numbers
None == <<>>
Some(v) == <<v>>

\* A character is spelled as itself when it is printable ASCII and by its code
\* point, "U+" and at least four hexadecimal digits, otherwise (the grave
\* accent too, which a string of this language cannot hold).
AsciiChars ==
    <<" ", "!", "\"", "#", "$", "%", "&", "'", "(", ")", "*", "+", ",", "-", ".", "/",
      "0", "1", "2", "3", "4", "5", "6", "7", "8", "9", ":", ";", "<", "=", ">", "?",
      "@", "A", "B", "C", "D", "E", "F", "G", "H", "I", "J", "K", "L", "M", "N", "O",
      "P", "Q", "R", "S", "T", "U", "V", "W", "X", "Y", "Z", "[", "\\", "]", "^", "_",
      "U+0060", "a", "b", "c", "d", "e", "f", "g", "h", "i", "j", "k", "l", "m", "n", "o",
      "p", "q", "r", "s", "t", "u", "v", "w", "x", "y", "z", "{", "|", "}", "~">>
HexDigits == <<"0", "1", "2", "3", "4", "5", "6", "7", "8", "9",
               "A", "B", "C", "D", "E", "F">>
RECURSIVE Hex(_)
Hex(n) == IF n < 16 THEN HexDigits[n + 1]
          ELSE Hex(n \div 16) \o HexDigits[(n % 16) + 1]
\* chr(n)
Chr(n) ==
    IF n \in 32..126 THEN AsciiChars[n - 31]
    ELSE "U+" \o (IF n < 16 THEN "000" ELSE IF n < 256 THEN "00"
                  ELSE IF n < 4096 THEN "0" ELSE "") \o Hex(n)
\* The line feed, in either spelling.
LineFeeds == {"\n", Chr(10)}

\* The tables below are those of the interpreter's Unicode database (14.0.0).
\* The digit zero of every script with decimal digits (category Nd); the nine
\* other digits follow it.
DecimalZeros ==
  {
    \h0030, \h0660, \h06F0, \h07C0, \h0966, \h09E6, \h0A66, \h0AE6,
    \h0B66, \h0BE6, \h0C66, \h0CE6, \h0D66, \h0DE6, \h0E50, \h0ED0,
    \h0F20, \h1040, \h1090, \h17E0, \h1810, \h1946, \h19D0, \h1A80,
    \h1A90, \h1B50, \h1BB0, \h1C40, \h1C50, \hA620, \hA8D0, \hA900,
    \hA9D0, \hA9F0, \hAA50, \hABF0, \hFF10, \h104A0, \h10D30, \h11066,
    \h110F0, \h11136, \h111D0, \h112F0, \h11450, \h114D0, \h11650, \h116C0,
    \h11730, \h118E0, \h11950, \h11C50, \h11D50, \h11DA0, \h16A60, \h16AC0,
    \h16B50, \h1D7CE, \h1D7D8, \h1D7E2, \h1D7EC, \h1D7F6, \h1E140, \h1E2F0,
    \h1E950, \h1FBF0
  }

\* str.lower() of one character that lowers to one other character:
\* <<first, last, step, offset>> lowers first, first + step, ... last by offset.
LowerRuns ==
  {
    <<\h0041, \h005A, 1, 32>>, <<\h00C0, \h00D6, 1, 32>>, <<\h00D8, \h00DE, 1, 32>>,
    <<\h0100, \h012E, 2, 1>>, <<\h0132, \h0136, 2, 1>>, <<\h0139, \h0147, 2, 1>>,
    <<\h014A, \h0176, 2, 1>>, <<\h0178, \h0178, 1, -121>>, <<\h0179, \h017D, 2, 1>>,
    <<\h0181, \h0181, 1, 210>>, <<\h0182, \h0184, 2, 1>>, <<\h0186, \h0186, 1, 206>>,
    <<\h0187, \h0187, 1, 1>>, <<\h0189, \h018A, 1, 205>>, <<\h018B, \h018B, 1, 1>>,
    <<\h018E, \h018E, 1, 79>>, <<\h018F, \h018F, 1, 202>>, <<\h0190, \h0190, 1, 203>>,
    <<\h0191, \h0191, 1, 1>>, <<\h0193, \h0193, 1, 205>>, <<\h0194, \h0194, 1, 207>>,
    <<\h0196, \h0196, 1, 211>>, <<\h0197, \h0197, 1, 209>>, <<\h0198, \h0198, 1, 1>>,
    <<\h019C, \h019C, 1, 211>>, <<\h019D, \h019D, 1, 213>>, <<\h019F, \h019F, 1, 214>>,
    <<\h01A0, \h01A4, 2, 1>>, <<\h01A6, \h01A6, 1, 218>>, <<\h01A7, \h01A7, 1, 1>>,
    <<\h01A9, \h01A9, 1, 218>>, <<\h01AC, \h01AC, 1, 1>>, <<\h01AE, \h01AE, 1, 218>>,
    <<\h01AF, \h01AF, 1, 1>>, <<\h01B1, \h01B2, 1, 217>>, <<\h01B3, \h01B5, 2, 1>>,
    <<\h01B7, \h01B7, 1, 219>>, <<\h01B8, \h01B8, 1, 1>>, <<\h01BC, \h01BC, 1, 1>>,
    <<\h01C4, \h01C4, 1, 2>>, <<\h01C5, \h01C5, 1, 1>>, <<\h01C7, \h01C7, 1, 2>>,
    <<\h01C8, \h01C8, 1, 1>>, <<\h01CA, \h01CA, 1, 2>>, <<\h01CB, \h01DB, 2, 1>>,
    <<\h01DE, \h01EE, 2, 1>>, <<\h01F1, \h01F1, 1, 2>>, <<\h01F2, \h01F4, 2, 1>>,
    <<\h01F6, \h01F6, 1, -97>>, <<\h01F7, \h01F7, 1, -56>>, <<\h01F8, \h021E, 2, 1>>,
    <<\h0220, \h0220, 1, -130>>, <<\h0222, \h0232, 2, 1>>, <<\h023A, \h023A, 1, 10795>>,
    <<\h023B, \h023B, 1, 1>>, <<\h023D, \h023D, 1, -163>>, <<\h023E, \h023E, 1, 10792>>,
    <<\h0241, \h0241, 1, 1>>, <<\h0243, \h0243, 1, -195>>, <<\h0244, \h0244, 1, 69>>,
    <<\h0245, \h0245, 1, 71>>, <<\h0246, \h024E, 2, 1>>, <<\h0370, \h0372, 2, 1>>,
    <<\h0376, \h0376, 1, 1>>, <<\h037F, \h037F, 1, 116>>, <<\h0386, \h0386, 1, 38>>,
    <<\h0388, \h038A, 1, 37>>, <<\h038C, \h038C, 1, 64>>, <<\h038E, \h038F, 1, 63>>,
    <<\h0391, \h03A1, 1, 32>>, <<\h03A3, \h03AB, 1, 32>>, <<\h03CF, \h03CF, 1, 8>>,
    <<\h03D8, \h03EE, 2, 1>>, <<\h03F4, \h03F4, 1, -60>>, <<\h03F7, \h03F7, 1, 1>>,
    <<\h03F9, \h03F9, 1, -7>>, <<\h03FA, \h03FA, 1, 1>>, <<\h03FD, \h03FF, 1, -130>>,
    <<\h0400, \h040F, 1, 80>>, <<\h0410, \h042F, 1, 32>>, <<\h0460, \h0480, 2, 1>>,
    <<\h048A, \h04BE, 2, 1>>, <<\h04C0, \h04C0, 1, 15>>, <<\h04C1, \h04CD, 2, 1>>,
    <<\h04D0, \h052E, 2, 1>>, <<\h0531, \h0556, 1, 48>>, <<\h10A0, \h10C5, 1, 7264>>,
    <<\h10C7, \h10C7, 1, 7264>>, <<\h10CD, \h10CD, 1, 7264>>, <<\h13A0, \h13EF, 1, 38864>>,
    <<\h13F0, \h13F5, 1, 8>>, <<\h1C90, \h1CBA, 1, -3008>>, <<\h1CBD, \h1CBF, 1, -3008>>,
    <<\h1E00, \h1E94, 2, 1>>, <<\h1E9E, \h1E9E, 1, -7615>>, <<\h1EA0, \h1EFE, 2, 1>>,
    <<\h1F08, \h1F0F, 1, -8>>, <<\h1F18, \h1F1D, 1, -8>>, <<\h1F28, \h1F2F, 1, -8>>,
    <<\h1F38, \h1F3F, 1, -8>>, <<\h1F48, \h1F4D, 1, -8>>, <<\h1F59, \h1F5F, 2, -8>>,
    <<\h1F68, \h1F6F, 1, -8>>, <<\h1F88, \h1F8F, 1, -8>>, <<\h1F98, \h1F9F, 1, -8>>,
    <<\h1FA8, \h1FAF, 1, -8>>, <<\h1FB8, \h1FB9, 1, -8>>, <<\h1FBA, \h1FBB, 1, -74>>,
    <<\h1FBC, \h1FBC, 1, -9>>, <<\h1FC8, \h1FCB, 1, -86>>, <<\h1FCC, \h1FCC, 1, -9>>,
    <<\h1FD8, \h1FD9, 1, -8>>, <<\h1FDA, \h1FDB, 1, -100>>, <<\h1FE8, \h1FE9, 1, -8>>,
    <<\h1FEA, \h1FEB, 1, -112>>, <<\h1FEC, \h1FEC, 1, -7>>, <<\h1FF8, \h1FF9, 1, -128>>,
    <<\h1FFA, \h1FFB, 1, -126>>, <<\h1FFC, \h1FFC, 1, -9>>, <<\h2126, \h2126, 1, -7517>>,
    <<\h212A, \h212A, 1, -8383>>, <<\h212B, \h212B, 1, -8262>>, <<\h2132, \h2132, 1, 28>>,
    <<\h2160, \h216F, 1, 16>>, <<\h2183, \h2183, 1, 1>>, <<\h24B6, \h24CF, 1, 26>>,
    <<\h2C00, \h2C2F, 1, 48>>, <<\h2C60, \h2C60, 1, 1>>, <<\h2C62, \h2C62, 1, -10743>>,
    <<\h2C63, \h2C63, 1, -3814>>, <<\h2C64, \h2C64, 1, -10727>>, <<\h2C67, \h2C6B, 2, 1>>,
    <<\h2C6D, \h2C6D, 1, -10780>>, <<\h2C6E, \h2C6E, 1, -10749>>, <<\h2C6F, \h2C6F, 1, -10783>>,
    <<\h2C70, \h2C70, 1, -10782>>, <<\h2C72, \h2C72, 1, 1>>, <<\h2C75, \h2C75, 1, 1>>,
    <<\h2C7E, \h2C7F, 1, -10815>>, <<\h2C80, \h2CE2, 2, 1>>, <<\h2CEB, \h2CED, 2, 1>>,
    <<\h2CF2, \h2CF2, 1, 1>>, <<\hA640, \hA66C, 2, 1>>, <<\hA680, \hA69A, 2, 1>>,
    <<\hA722, \hA72E, 2, 1>>, <<\hA732, \hA76E, 2, 1>>, <<\hA779, \hA77B, 2, 1>>,
    <<\hA77D, \hA77D, 1, -35332>>, <<\hA77E, \hA786, 2, 1>>, <<\hA78B, \hA78B, 1, 1>>,
    <<\hA78D, \hA78D, 1, -42280>>, <<\hA790, \hA792, 2, 1>>, <<\hA796, \hA7A8, 2, 1>>,
    <<\hA7AA, \hA7AA, 1, -42308>>, <<\hA7AB, \hA7AB, 1, -42319>>, <<\hA7AC, \hA7AC, 1, -42315>>,
    <<\hA7AD, \hA7AD, 1, -42305>>, <<\hA7AE, \hA7AE, 1, -42308>>, <<\hA7B0, \hA7B0, 1, -42258>>,
    <<\hA7B1, \hA7B1, 1, -42282>>, <<\hA7B2, \hA7B2, 1, -42261>>, <<\hA7B3, \hA7B3, 1, 928>>,
    <<\hA7B4, \hA7C2, 2, 1>>, <<\hA7C4, \hA7C4, 1, -48>>, <<\hA7C5, \hA7C5, 1, -42307>>,
    <<\hA7C6, \hA7C6, 1, -35384>>, <<\hA7C7, \hA7C9, 2, 1>>, <<\hA7D0, \hA7D0, 1, 1>>,
    <<\hA7D6, \hA7D8, 2, 1>>, <<\hA7F5, \hA7F5, 1, 1>>, <<\hFF21, \hFF3A, 1, 32>>,
    <<\h10400, \h10427, 1, 40>>, <<\h104B0, \h104D3, 1, 40>>, <<\h10570, \h10594, 2, 39>>,
    <<\h10571, \h10579, 2, 39>>, <<\h1057D, \h10589, 2, 39>>, <<\h1058D, \h10591, 2, 39>>,
    <<\h10595, \h10595, 1, 39>>, <<\h10C80, \h10CB2, 1, 64>>, <<\h118A0, \h118BF, 1, 32>>,
    <<\h16E40, \h16E5F, 1, 32>>, <<\h1E900, \h1E921, 1, 34>>
  }

\* The characters the final-sigma rule of str.lower() skips (Case_Ignorable),
\* and the cased characters among the others, as <<first, last>>.
CaseIgnorableRanges ==
  {
    <<\h0027, \h0027>>, <<\h002E, \h002E>>, <<\h003A, \h003A>>, <<\h005E, \h005E>>, <<\h0060, \h0060>>,
    <<\h00A8, \h00A8>>, <<\h00AD, \h00AD>>, <<\h00AF, \h00AF>>, <<\h00B4, \h00B4>>, <<\h00B7, \h00B8>>,
    <<\h02B0, \h036F>>, <<\h0374, \h0375>>, <<\h037A, \h037A>>, <<\h0384, \h0385>>, <<\h0387, \h0387>>,
    <<\h0483, \h0489>>, <<\h0559, \h0559>>, <<\h055F, \h055F>>, <<\h0591, \h05BD>>, <<\h05BF, \h05BF>>,
    <<\h05C1, \h05C2>>, <<\h05C4, \h05C5>>, <<\h05C7, \h05C7>>, <<\h05F4, \h05F4>>, <<\h0600, \h0605>>,
    <<\h0610, \h061A>>, <<\h061C, \h061C>>, <<\h0640, \h0640>>, <<\h064B, \h065F>>, <<\h0670, \h0670>>,
    <<\h06D6, \h06DD>>, <<\h06DF, \h06E8>>, <<\h06EA, \h06ED>>, <<\h070F, \h070F>>, <<\h0711, \h0711>>,
    <<\h0730, \h074A>>, <<\h07A6, \h07B0>>, <<\h07EB, \h07F5>>, <<\h07FA, \h07FA>>, <<\h07FD, \h07FD>>,
    <<\h0816, \h082D>>, <<\h0859, \h085B>>, <<\h0888, \h0888>>, <<\h0890, \h0891>>, <<\h0898, \h089F>>,
    <<\h08C9, \h0902>>, <<\h093A, \h093A>>, <<\h093C, \h093C>>, <<\h0941, \h0948>>, <<\h094D, \h094D>>,
    <<\h0951, \h0957>>, <<\h0962, \h0963>>, <<\h0971, \h0971>>, <<\h0981, \h0981>>, <<\h09BC, \h09BC>>,
    <<\h09C1, \h09C4>>, <<\h09CD, \h09CD>>, <<\h09E2, \h09E3>>, <<\h09FE, \h09FE>>, <<\h0A01, \h0A02>>,
    <<\h0A3C, \h0A3C>>, <<\h0A41, \h0A42>>, <<\h0A47, \h0A48>>, <<\h0A4B, \h0A4D>>, <<\h0A51, \h0A51>>,
    <<\h0A70, \h0A71>>, <<\h0A75, \h0A75>>, <<\h0A81, \h0A82>>, <<\h0ABC, \h0ABC>>, <<\h0AC1, \h0AC5>>,
    <<\h0AC7, \h0AC8>>, <<\h0ACD, \h0ACD>>, <<\h0AE2, \h0AE3>>, <<\h0AFA, \h0AFF>>, <<\h0B01, \h0B01>>,
    <<\h0B3C, \h0B3C>>, <<\h0B3F, \h0B3F>>, <<\h0B41, \h0B44>>, <<\h0B4D, \h0B4D>>, <<\h0B55, \h0B56>>,
    <<\h0B62, \h0B63>>, <<\h0B82, \h0B82>>, <<\h0BC0, \h0BC0>>, <<\h0BCD, \h0BCD>>, <<\h0C00, \h0C00>>,
    <<\h0C04, \h0C04>>, <<\h0C3C, \h0C3C>>, <<\h0C3E, \h0C40>>, <<\h0C46, \h0C48>>, <<\h0C4A, \h0C4D>>,
    <<\h0C55, \h0C56>>, <<\h0C62, \h0C63>>, <<\h0C81, \h0C81>>, <<\h0CBC, \h0CBC>>, <<\h0CBF, \h0CBF>>,
    <<\h0CC6, \h0CC6>>, <<\h0CCC, \h0CCD>>, <<\h0CE2, \h0CE3>>, <<\h0D00, \h0D01>>, <<\h0D3B, \h0D3C>>,
    <<\h0D41, \h0D44>>, <<\h0D4D, \h0D4D>>, <<\h0D62, \h0D63>>, <<\h0D81, \h0D81>>, <<\h0DCA, \h0DCA>>,
    <<\h0DD2, \h0DD4>>, <<\h0DD6, \h0DD6>>, <<\h0E31, \h0E31>>, <<\h0E34, \h0E3A>>, <<\h0E46, \h0E4E>>,
    <<\h0EB1, \h0EB1>>, <<\h0EB4, \h0EBC>>, <<\h0EC6, \h0EC6>>, <<\h0EC8, \h0ECD>>, <<\h0F18, \h0F19>>,
    <<\h0F35, \h0F35>>, <<\h0F37, \h0F37>>, <<\h0F39, \h0F39>>, <<\h0F71, \h0F7E>>, <<\h0F80, \h0F84>>,
    <<\h0F86, \h0F87>>, <<\h0F8D, \h0F97>>, <<\h0F99, \h0FBC>>, <<\h0FC6, \h0FC6>>, <<\h102D, \h1030>>,
    <<\h1032, \h1037>>, <<\h1039, \h103A>>, <<\h103D, \h103E>>, <<\h1058, \h1059>>, <<\h105E, \h1060>>,
    <<\h1071, \h1074>>, <<\h1082, \h1082>>, <<\h1085, \h1086>>, <<\h108D, \h108D>>, <<\h109D, \h109D>>,
    <<\h10FC, \h10FC>>, <<\h135D, \h135F>>, <<\h1712, \h1714>>, <<\h1732, \h1733>>, <<\h1752, \h1753>>,
    <<\h1772, \h1773>>, <<\h17B4, \h17B5>>, <<\h17B7, \h17BD>>, <<\h17C6, \h17C6>>, <<\h17C9, \h17D3>>,
    <<\h17D7, \h17D7>>, <<\h17DD, \h17DD>>, <<\h180B, \h180F>>, <<\h1843, \h1843>>, <<\h1885, \h1886>>,
    <<\h18A9, \h18A9>>, <<\h1920, \h1922>>, <<\h1927, \h1928>>, <<\h1932, \h1932>>, <<\h1939, \h193B>>,
    <<\h1A17, \h1A18>>, <<\h1A1B, \h1A1B>>, <<\h1A56, \h1A56>>, <<\h1A58, \h1A5E>>, <<\h1A60, \h1A60>>,
    <<\h1A62, \h1A62>>, <<\h1A65, \h1A6C>>, <<\h1A73, \h1A7C>>, <<\h1A7F, \h1A7F>>, <<\h1AA7, \h1AA7>>,
    <<\h1AB0, \h1ACE>>, <<\h1B00, \h1B03>>, <<\h1B34, \h1B34>>, <<\h1B36, \h1B3A>>, <<\h1B3C, \h1B3C>>,
    <<\h1B42, \h1B42>>, <<\h1B6B, \h1B73>>, <<\h1B80, \h1B81>>, <<\h1BA2, \h1BA5>>, <<\h1BA8, \h1BA9>>,
    <<\h1BAB, \h1BAD>>, <<\h1BE6, \h1BE6>>, <<\h1BE8, \h1BE9>>, <<\h1BED, \h1BED>>, <<\h1BEF, \h1BF1>>,
    <<\h1C2C, \h1C33>>, <<\h1C36, \h1C37>>, <<\h1C78, \h1C7D>>, <<\h1CD0, \h1CD2>>, <<\h1CD4, \h1CE0>>,
    <<\h1CE2, \h1CE8>>, <<\h1CED, \h1CED>>, <<\h1CF4, \h1CF4>>, <<\h1CF8, \h1CF9>>, <<\h1D2C, \h1D6A>>,
    <<\h1D78, \h1D78>>, <<\h1D9B, \h1DFF>>, <<\h1FBD, \h1FBD>>, <<\h1FBF, \h1FC1>>, <<\h1FCD, \h1FCF>>,
    <<\h1FDD, \h1FDF>>, <<\h1FED, \h1FEF>>, <<\h1FFD, \h1FFE>>, <<\h200B, \h200F>>, <<\h2018, \h2019>>,
    <<\h2024, \h2024>>, <<\h2027, \h2027>>, <<\h202A, \h202E>>, <<\h2060, \h2064>>, <<\h2066, \h206F>>,
    <<\h2071, \h2071>>, <<\h207F, \h207F>>, <<\h2090, \h209C>>, <<\h20D0, \h20F0>>, <<\h2C7C, \h2C7D>>,
    <<\h2CEF, \h2CF1>>, <<\h2D6F, \h2D6F>>, <<\h2D7F, \h2D7F>>, <<\h2DE0, \h2DFF>>, <<\h2E2F, \h2E2F>>,
    <<\h3005, \h3005>>, <<\h302A, \h302D>>, <<\h3031, \h3035>>, <<\h303B, \h303B>>, <<\h3099, \h309E>>,
    <<\h30FC, \h30FE>>, <<\hA015, \hA015>>, <<\hA4F8, \hA4FD>>, <<\hA60C, \hA60C>>, <<\hA66F, \hA672>>,
    <<\hA674, \hA67D>>, <<\hA67F, \hA67F>>, <<\hA69C, \hA69F>>, <<\hA6F0, \hA6F1>>, <<\hA700, \hA721>>,
    <<\hA770, \hA770>>, <<\hA788, \hA78A>>, <<\hA7F2, \hA7F4>>, <<\hA7F8, \hA7F9>>, <<\hA802, \hA802>>,
    <<\hA806, \hA806>>, <<\hA80B, \hA80B>>, <<\hA825, \hA826>>, <<\hA82C, \hA82C>>, <<\hA8C4, \hA8C5>>,
    <<\hA8E0, \hA8F1>>, <<\hA8FF, \hA8FF>>, <<\hA926, \hA92D>>, <<\hA947, \hA951>>, <<\hA980, \hA982>>,
    <<\hA9B3, \hA9B3>>, <<\hA9B6, \hA9B9>>, <<\hA9BC, \hA9BD>>, <<\hA9CF, \hA9CF>>, <<\hA9E5, \hA9E6>>,
    <<\hAA29, \hAA2E>>, <<\hAA31, \hAA32>>, <<\hAA35, \hAA36>>, <<\hAA43, \hAA43>>, <<\hAA4C, \hAA4C>>,
    <<\hAA70, \hAA70>>, <<\hAA7C, \hAA7C>>, <<\hAAB0, \hAAB0>>, <<\hAAB2, \hAAB4>>, <<\hAAB7, \hAAB8>>,
    <<\hAABE, \hAABF>>, <<\hAAC1, \hAAC1>>, <<\hAADD, \hAADD>>, <<\hAAEC, \hAAED>>, <<\hAAF3, \hAAF4>>,
    <<\hAAF6, \hAAF6>>, <<\hAB5B, \hAB5F>>, <<\hAB69, \hAB6B>>, <<\hABE5, \hABE5>>, <<\hABE8, \hABE8>>,
    <<\hABED, \hABED>>, <<\hFB1E, \hFB1E>>, <<\hFBB2, \hFBC2>>, <<\hFE00, \hFE0F>>, <<\hFE13, \hFE13>>,
    <<\hFE20, \hFE2F>>, <<\hFE52, \hFE52>>, <<\hFE55, \hFE55>>, <<\hFEFF, \hFEFF>>, <<\hFF07, \hFF07>>,
    <<\hFF0E, \hFF0E>>, <<\hFF1A, \hFF1A>>, <<\hFF3E, \hFF3E>>, <<\hFF40, \hFF40>>, <<\hFF70, \hFF70>>,
    <<\hFF9E, \hFF9F>>, <<\hFFE3, \hFFE3>>, <<\hFFF9, \hFFFB>>, <<\h101FD, \h101FD>>, <<\h102E0, \h102E0>>,
    <<\h10376, \h1037A>>, <<\h10780, \h10785>>, <<\h10787, \h107B0>>, <<\h107B2, \h107BA>>, <<\h10A01, \h10A03>>,
    <<\h10A05, \h10A06>>, <<\h10A0C, \h10A0F>>, <<\h10A38, \h10A3A>>, <<\h10A3F, \h10A3F>>, <<\h10AE5, \h10AE6>>,
    <<\h10D24, \h10D27>>, <<\h10EAB, \h10EAC>>, <<\h10F46, \h10F50>>, <<\h10F82, \h10F85>>, <<\h11001, \h11001>>,
    <<\h11038, \h11046>>, <<\h11070, \h11070>>, <<\h11073, \h11074>>, <<\h1107F, \h11081>>, <<\h110B3, \h110B6>>,
    <<\h110B9, \h110BA>>, <<\h110BD, \h110BD>>, <<\h110C2, \h110C2>>, <<\h110CD, \h110CD>>, <<\h11100, \h11102>>,
    <<\h11127, \h1112B>>, <<\h1112D, \h11134>>, <<\h11173, \h11173>>, <<\h11180, \h11181>>, <<\h111B6, \h111BE>>,
    <<\h111C9, \h111CC>>, <<\h111CF, \h111CF>>, <<\h1122F, \h11231>>, <<\h11234, \h11234>>, <<\h11236, \h11237>>,
    <<\h1123E, \h1123E>>, <<\h112DF, \h112DF>>, <<\h112E3, \h112EA>>, <<\h11300, \h11301>>, <<\h1133B, \h1133C>>,
    <<\h11340, \h11340>>, <<\h11366, \h1136C>>, <<\h11370, \h11374>>, <<\h11438, \h1143F>>, <<\h11442, \h11444>>,
    <<\h11446, \h11446>>, <<\h1145E, \h1145E>>, <<\h114B3, \h114B8>>, <<\h114BA, \h114BA>>, <<\h114BF, \h114C0>>,
    <<\h114C2, \h114C3>>, <<\h115B2, \h115B5>>, <<\h115BC, \h115BD>>, <<\h115BF, \h115C0>>, <<\h115DC, \h115DD>>,
    <<\h11633, \h1163A>>, <<\h1163D, \h1163D>>, <<\h1163F, \h11640>>, <<\h116AB, \h116AB>>, <<\h116AD, \h116AD>>,
    <<\h116B0, \h116B5>>, <<\h116B7, \h116B7>>, <<\h1171D, \h1171F>>, <<\h11722, \h11725>>, <<\h11727, \h1172B>>,
    <<\h1182F, \h11837>>, <<\h11839, \h1183A>>, <<\h1193B, \h1193C>>, <<\h1193E, \h1193E>>, <<\h11943, \h11943>>,
    <<\h119D4, \h119D7>>, <<\h119DA, \h119DB>>, <<\h119E0, \h119E0>>, <<\h11A01, \h11A0A>>, <<\h11A33, \h11A38>>,
    <<\h11A3B, \h11A3E>>, <<\h11A47, \h11A47>>, <<\h11A51, \h11A56>>, <<\h11A59, \h11A5B>>, <<\h11A8A, \h11A96>>,
    <<\h11A98, \h11A99>>, <<\h11C30, \h11C36>>, <<\h11C38, \h11C3D>>, <<\h11C3F, \h11C3F>>, <<\h11C92, \h11CA7>>,
    <<\h11CAA, \h11CB0>>, <<\h11CB2, \h11CB3>>, <<\h11CB5, \h11CB6>>, <<\h11D31, \h11D36>>, <<\h11D3A, \h11D3A>>,
    <<\h11D3C, \h11D3D>>, <<\h11D3F, \h11D45>>, <<\h11D47, \h11D47>>, <<\h11D90, \h11D91>>, <<\h11D95, \h11D95>>,
    <<\h11D97, \h11D97>>, <<\h11EF3, \h11EF4>>, <<\h13430, \h13438>>, <<\h16AF0, \h16AF4>>, <<\h16B30, \h16B36>>,
    <<\h16B40, \h16B43>>, <<\h16F4F, \h16F4F>>, <<\h16F8F, \h16F9F>>, <<\h16FE0, \h16FE1>>, <<\h16FE3, \h16FE4>>,
    <<\h1AFF0, \h1AFF3>>, <<\h1AFF5, \h1AFFB>>, <<\h1AFFD, \h1AFFE>>, <<\h1BC9D, \h1BC9E>>, <<\h1BCA0, \h1BCA3>>,
    <<\h1CF00, \h1CF2D>>, <<\h1CF30, \h1CF46>>, <<\h1D167, \h1D169>>, <<\h1D173, \h1D182>>, <<\h1D185, \h1D18B>>,
    <<\h1D1AA, \h1D1AD>>, <<\h1D242, \h1D244>>, <<\h1DA00, \h1DA36>>, <<\h1DA3B, \h1DA6C>>, <<\h1DA75, \h1DA75>>,
    <<\h1DA84, \h1DA84>>, <<\h1DA9B, \h1DA9F>>, <<\h1DAA1, \h1DAAF>>, <<\h1E000, \h1E006>>, <<\h1E008, \h1E018>>,
    <<\h1E01B, \h1E021>>, <<\h1E023, \h1E024>>, <<\h1E026, \h1E02A>>, <<\h1E130, \h1E13D>>, <<\h1E2AE, \h1E2AE>>,
    <<\h1E2EC, \h1E2EF>>, <<\h1E8D0, \h1E8D6>>, <<\h1E944, \h1E94B>>, <<\h1F3FB, \h1F3FF>>, <<\hE0001, \hE0001>>,
    <<\hE0020, \hE007F>>, <<\hE0100, \hE01EF>>
  }

CasedRanges ==
  {
    <<\h0041, \h005A>>, <<\h0061, \h007A>>, <<\h00AA, \h00AA>>, <<\h00B5, \h00B5>>, <<\h00BA, \h00BA>>,
    <<\h00C0, \h00D6>>, <<\h00D8, \h00F6>>, <<\h00F8, \h01BA>>, <<\h01BC, \h01BF>>, <<\h01C4, \h0293>>,
    <<\h0295, \h02AF>>, <<\h0370, \h0373>>, <<\h0376, \h0377>>, <<\h037B, \h037D>>, <<\h037F, \h037F>>,
    <<\h0386, \h0386>>, <<\h0388, \h038A>>, <<\h038C, \h038C>>, <<\h038E, \h03A1>>, <<\h03A3, \h03F5>>,
    <<\h03F7, \h0481>>, <<\h048A, \h052F>>, <<\h0531, \h0556>>, <<\h0560, \h0588>>, <<\h10A0, \h10C5>>,
    <<\h10C7, \h10C7>>, <<\h10CD, \h10CD>>, <<\h10D0, \h10FA>>, <<\h10FD, \h10FF>>, <<\h13A0, \h13F5>>,
    <<\h13F8, \h13FD>>, <<\h1C80, \h1C88>>, <<\h1C90, \h1CBA>>, <<\h1CBD, \h1CBF>>, <<\h1D00, \h1D2B>>,
    <<\h1D6B, \h1D77>>, <<\h1D79, \h1D9A>>, <<\h1E00, \h1F15>>, <<\h1F18, \h1F1D>>, <<\h1F20, \h1F45>>,
    <<\h1F48, \h1F4D>>, <<\h1F50, \h1F57>>, <<\h1F59, \h1F59>>, <<\h1F5B, \h1F5B>>, <<\h1F5D, \h1F5D>>,
    <<\h1F5F, \h1F7D>>, <<\h1F80, \h1FB4>>, <<\h1FB6, \h1FBC>>, <<\h1FBE, \h1FBE>>, <<\h1FC2, \h1FC4>>,
    <<\h1FC6, \h1FCC>>, <<\h1FD0, \h1FD3>>, <<\h1FD6, \h1FDB>>, <<\h1FE0, \h1FEC>>, <<\h1FF2, \h1FF4>>,
    <<\h1FF6, \h1FFC>>, <<\h2102, \h2102>>, <<\h2107, \h2107>>, <<\h210A, \h2113>>, <<\h2115, \h2115>>,
    <<\h2119, \h211D>>, <<\h2124, \h2124>>, <<\h2126, \h2126>>, <<\h2128, \h2128>>, <<\h212A, \h212D>>,
    <<\h212F, \h2134>>, <<\h2139, \h2139>>, <<\h213C, \h213F>>, <<\h2145, \h2149>>, <<\h214E, \h214E>>,
    <<\h2160, \h217F>>, <<\h2183, \h2184>>, <<\h24B6, \h24E9>>, <<\h2C00, \h2C7B>>, <<\h2C7E, \h2CE4>>,
    <<\h2CEB, \h2CEE>>, <<\h2CF2, \h2CF3>>, <<\h2D00, \h2D25>>, <<\h2D27, \h2D27>>, <<\h2D2D, \h2D2D>>,
    <<\hA640, \hA66D>>, <<\hA680, \hA69B>>, <<\hA722, \hA76F>>, <<\hA771, \hA787>>, <<\hA78B, \hA78E>>,
    <<\hA790, \hA7CA>>, <<\hA7D0, \hA7D1>>, <<\hA7D3, \hA7D3>>, <<\hA7D5, \hA7D9>>, <<\hA7F5, \hA7F6>>,
    <<\hA7FA, \hA7FA>>, <<\hAB30, \hAB5A>>, <<\hAB60, \hAB68>>, <<\hAB70, \hABBF>>, <<\hFB00, \hFB06>>,
    <<\hFB13, \hFB17>>, <<\hFF21, \hFF3A>>, <<\hFF41, \hFF5A>>, <<\h10400, \h1044F>>, <<\h104B0, \h104D3>>,
    <<\h104D8, \h104FB>>, <<\h10570, \h1057A>>, <<\h1057C, \h1058A>>, <<\h1058C, \h10592>>, <<\h10594, \h10595>>,
    <<\h10597, \h105A1>>, <<\h105A3, \h105B1>>, <<\h105B3, \h105B9>>, <<\h105BB, \h105BC>>, <<\h10C80, \h10CB2>>,
    <<\h10CC0, \h10CF2>>, <<\h118A0, \h118DF>>, <<\h16E40, \h16E7F>>, <<\h1D400, \h1D454>>, <<\h1D456, \h1D49C>>,
    <<\h1D49E, \h1D49F>>, <<\h1D4A2, \h1D4A2>>, <<\h1D4A5, \h1D4A6>>, <<\h1D4A9, \h1D4AC>>, <<\h1D4AE, \h1D4B9>>,
    <<\h1D4BB, \h1D4BB>>, <<\h1D4BD, \h1D4C3>>, <<\h1D4C5, \h1D505>>, <<\h1D507, \h1D50A>>, <<\h1D50D, \h1D514>>,
    <<\h1D516, \h1D51C>>, <<\h1D51E, \h1D539>>, <<\h1D53B, \h1D53E>>, <<\h1D540, \h1D544>>, <<\h1D546, \h1D546>>,
    <<\h1D54A, \h1D550>>, <<\h1D552, \h1D6A5>>, <<\h1D6A8, \h1D6C0>>, <<\h1D6C2, \h1D6DA>>, <<\h1D6DC, \h1D6FA>>,
    <<\h1D6FC, \h1D714>>, <<\h1D716, \h1D734>>, <<\h1D736, \h1D74E>>, <<\h1D750, \h1D76E>>, <<\h1D770, \h1D788>>,
    <<\h1D78A, \h1D7A8>>, <<\h1D7AA, \h1D7C2>>, <<\h1D7C4, \h1D7CB>>, <<\h1DF00, \h1DF09>>, <<\h1DF0B, \h1DF1E>>,
    <<\h1E900, \h1E943>>, <<\h1F130, \h1F149>>, <<\h1F150, \h1F169>>, <<\h1F170, \h1F189>>
  }

DigitChars == <<"0", "1", "2", "3", "4", "5", "6", "7", "8", "9">>

\* \d of a str pattern and int() take every decimal digit of Unicode.
DigitPairs == {<<Chr(z + v), v>> : z \in DecimalZeros, v \in 0..9}
DigitValues == [c \in {p[1] : p \in DigitPairs} |->
                    (CHOOSE p \in DigitPairs : p[1] = c)[2]]
IsDigit(c) == c \in DOMAIN DigitValues
DigitVal(c) == DigitValues[c]

LowerPairs ==
    UNION {{<<Chr(c), Chr(c + r[4])>> : c \in {x \in r[1]..r[2] : (x - r[1]) % r[3] = 0}} :
              r \in LowerRuns}
LowerOfUpper == [c \in {p[1] : p \in LowerPairs} |->
                    (CHOOSE p \in LowerPairs : p[1] = c)[2]]
CaseIgnorable == UNION {{Chr(n) : n \in r[1]..r[2]} : r \in CaseIgnorableRanges}
Cased == UNION {{Chr(n) : n \in r[1]..r[2]} : r \in CasedRanges}

\* str.lower() of a one-character string: the capital I with dot above lowers
\* to two characters, a capital sigma on its own to the small sigma.
CapitalIDotAbove == Chr(\h0130)
CombiningDotAbove == Chr(\h0307)
LowerChar(c) ==
    IF c = CapitalIDotAbove THEN <<"i", CombiningDotAbove>>
    ELSE IF c \in DOMAIN LowerOfUpper THEN <<LowerOfUpper[c]>>
    ELSE <<c>>

\* The final-sigma rule: a capital sigma lowers to the final small sigma when
\* the nearest character before it that is not skipped is cased, and the
\* nearest one after it, if any, is not.
CapitalSigma == Chr(\h03A3)
SmallSigma == Chr(\h03C3)
FinalSmallSigma == Chr(\h03C2)
FinalSigma(s, i) ==
    LET before == {j \in 1..(i - 1) : s[j] \notin CaseIgnorable}
        after == {j \in (i + 1)..Len(s) : s[j] \notin CaseIgnorable}
    IN /\ before # {}
       /\ s[CHOOSE j \in before : \A k \in before : k <= j] \in Cased
       /\ after # {} => s[CHOOSE j \in after : \A k \in after : j <= k] \notin Cased

\* str.lower() on a string
RECURSIVE LowerFrom(_, _)
LowerFrom(s, i) ==
    IF i > Len(s) THEN <<>>
    ELSE (IF s[i] = CapitalSigma
          THEN <<IF FinalSigma(s, i) THEN FinalSmallSigma ELSE SmallSigma>>
          ELSE LowerChar(s[i])) \o LowerFrom(s, i + 1)
Lower(s) ==
    IF \E i \in 1..Len(s) : s[i] \in {CapitalSigma, CapitalIDotAbove}
    THEN LowerFrom(s, 1)
    ELSE [i \in 1..Len(s) |-> LowerChar(s[i])[1]]

\* str.endswith(t)
EndsWith(s, t) ==
    /\ Len(t) <= Len(s)
    /\ SubSeq(s, Len(s) - Len(t) + 1, Len(s)) = t

\* int("017") = 17
RECURSIVE IntOf(_)
IntOf(ds) ==
    IF Len(ds) = 0 THEN 0
    ELSE 10 * IntOf(SubSeq(ds, 1, Len(ds) - 1)) + DigitVal(ds[Len(ds)])

\* str(17) = "17", for n >= 0
RECURSIVE StrOf(_)
StrOf(n) ==
    IF n < 10 THEN <<DigitChars[n + 1]>>
    ELSE StrOf(n \div 10) \o <<DigitChars[(n % 10) + 1]>>

\* sorted(S) for a finite set of integers
RECURSIVE Sorted(_)
Sorted(S) ==
    IF S = {} THEN <<>>
    ELSE LET m == CHOOSE x \in S : \A y \in S : x <= y
         IN <<m>> \o Sorted(S \ {m})

Range(s) == {s[i] : i \in 1..Len(s)}
MinOf(s) == CHOOSE x \in Range(s) : \A y \in Range(s) : x <= y
MaxOf(s) == CHOOSE x \in Range(s) : \A y \in Range(s) : x >= y

\* ------------------------------------------------------------- file names
\* Index of the last "." of a name, 0 when there is none.
LastDot(name) ==
    IF \E i \in 1..Len(name) : name[i] = "."
    THEN CHOOSE i \in 1..Len(name) :
            name[i] = "." /\ \A j \in (i + 1)..Len(name) : name[j] # "."
    ELSE 0

\* pathlib's Path.suffix: the last dotted part, "" for a leading or trailing dot.
PathSuffix(name) ==
    LET d == LastDot(name)
    IN IF d > 1 /\ d < Len(name) THEN SubSeq(name, d, Len(name)) ELSE <<>>

PngExts == {<<".", "p", "n", "g">>}
JsonExts == {<<".", "j", "s", "o", "n">>}

\* re.IGNORECASE on the letters of the pattern: a letter matches itself, its
\* capital, and for "s" the long s, which the regular expression engine folds
\* with it.
IgnoreCase ==
    [c \in {"p", "n", "g", "j", "s", "o"} |->
        CASE c = "p" -> {"p", "P"}
          [] c = "n" -> {"n", "N"}
          [] c = "g" -> {"g", "G"}
          [] c = "j" -> {"j", "J"}
          [] c = "s" -> {"s", "S", Chr(\h017F)}
          [] c = "o" -> {"o", "O"}]
MatchesWord(s, word) ==
    /\ Len(s) = Len(word)
    /\ \A i \in 1..Len(s) : s[i] \in IgnoreCase[word[i]]

\* "$" matches at the end of the name and before a line feed that ends it.
BeforeFinalLineFeed(name) ==
    IF Len(name) > 0 /\ name[Len(name)] \in LineFeeds
    THEN SubSeq(name, 1, Len(name) - 1) ELSE name

\* ID_RE = ^(\d+)\.(png|json)$ with re.IGNORECASE: the digits captured, or None.
ID_RE(name) ==
    LET body == BeforeFinalLineFeed(name)
        d == LastDot(body)
        ext == SubSeq(body, d + 1, Len(body))
    IN IF /\ d > 1
          /\ \A i \in 1..(d - 1) : IsDigit(body[i])
          /\ \/ MatchesWord(ext, <<"p", "n", "g">>)
             \/ MatchesWord(ext, <<"j", "s", "o", "n">>)
       THEN Some(SubSeq(body, 1, d - 1))
       ELSE None

\* The identifier collect_ids gives a file name, or None when it skips the file.
TokenIdOf(name, exts) ==
    IF Lower(PathSuffix(name)) \notin exts THEN None
    ELSE IF ID_RE(name) = None THEN None
    ELSE Some(IntOf(ID_RE(name)[1]))

\* The keys of the mapping collect_ids returns for a directory listing.
CollectedIds(names, exts) ==
    {t[1] : t \in {TokenIdOf(n, exts) : n \in names} \ {None}}

\* The files of a listing that collect_ids files under one identifier.
FilesOf(id, names, exts) == {n \in names : TokenIdOf(n, exts) = Some(id)}

\* The mappings collect_ids can return: a later file of the listing overwrites
\* an earlier one with the same identifier, and the listing order is the
\* operating system's, so any file of an identifier may be the one kept.
RECURSIVE MappingsOver(_, _, _)
MappingsOver(ids, names, exts) ==
    IF ids = {} THEN {<<>>}
    ELSE LET id == CHOOSE x \in ids : TRUE
         IN {[x \in ids |-> IF x = id THEN n ELSE m[x]] :
                m \in MappingsOver(ids \ {id}, names, exts),
                n \in FilesOf(id, names, exts)}
collect_ids(names, exts) == MappingsOver(CollectedIds(names, exts), names, exts)

\* find_duplicates: the lower-cased names that occur more than once.
find_duplicates(names) ==
    LET lowered == [n \in names |-> Lower(n)]
    IN {lowered[x] : x \in {n \in names : \E y \in names \ {n} : lowered[y] = lowered[n]}}

\* ------------------------------------------------------ metadata documents
\* What a metadata file holds: text that is not JSON ("invalid"), a JSON value
\* that is no object ("array"), or a JSON object with an optional "image"
\* member and an "attributes" list of <<trait_type, value>> pairs.
\* The "image" member is <<"absent">>, <<"number">> or <<"str", characters>>.
AbsentField == <<"absent">>
NumberField == <<"number">>
StrField(s) == <<"str", s>>

InvalidDoc == [shape |-> "invalid", image |-> AbsentField, attributes |-> <<>>]
ArrayDoc == [shape |-> "array", image |-> AbsentField, attributes |-> <<>>]
ObjectDoc(img, attrs) == [shape |-> "object", image |-> img, attributes |-> attrs]

\* The surrogate code points, which no UTF-8 stream can encode.  json.load
\* accepts a lone one in a string ("\ud800"), and the bytes of a file name
\* that are not UTF-8 are read as U+DC80 to U+DCFF.
Surrogates == {Chr(n) : n \in \hD800..\hDFFF}
Surrogate == Chr(\hD800)
\* print(s) raises UnicodeEncodeError
Unencodable(s) == \E i \in 1..Len(s) : s[i] \in Surrogates

\* try_load_json: <<ok, error text>>
try_load_json(doc) ==
    IF doc.shape = "invalid" THEN <<FALSE, "invalid json">> ELSE <<TRUE, "">>

\* data.get("image", ""): the member, or the empty string when it is absent.
GetImage(doc) == IF doc.image = AbsentField THEN StrField(<<>>) ELSE doc.image

\* Mutant: only the ending "/<id>.png" is accepted.
ImageMismatch_SlashOnly(token_id, img_field) ==
    \/ img_field[1] # "str"
    \/ ~EndsWith(Lower(img_field[2]), <<"/">> \o StrOf(token_id) \o <<".", "p", "n", "g">>)

\* The condition of line 174: not a string, or ending neither with
\* "/<id>.png" nor with "<id>.png" once lower-cased.
ImageMismatch(token_id, img_field) ==
    \/ img_field[1] # "str"
    \/ /\ ~EndsWith(Lower(img_field[2]), <<"/">> \o StrOf(token_id) \o <<".", "p", "n", "g">>)
       /\ ~EndsWith(Lower(img_field[2]), StrOf(token_id) \o <<".", "p", "n", "g">>)

\* One iteration of the image-field loop: None, or Some of the entry appended
\* to mismatches.  An unreadable file and a document without .get both raise
\* inside the try block and are recorded with the error text.
CheckImageField(token_id, doc) ==
    IF doc.shape # "object" THEN Some(<<token_id, <<"error reading">>>>)
    ELSE IF ImageMismatch(token_id, GetImage(doc)) THEN Some(<<token_id, GetImage(doc)>>)
    ELSE None

\* ---------------------------------------------------------- reconciliation
\* Mutant: the difference taken the wrong way round.
MissingImages_Swapped(image_set, meta_set) == Sorted(image_set \ meta_set)

MissingImages(image_set, meta_set) == Sorted(meta_set \ image_set)
MissingMeta(image_set, meta_set) == Sorted(image_set \ meta_set)
Common(image_set, meta_set) == Sorted(image_set \cap meta_set)

\* Mutant: the end of common wins over the argument.
MinId_PrefersCommon(arg, common_ids) ==
    IF common_ids # <<>> THEN Some(MinOf(common_ids)) ELSE arg
\* Mutant: no inference from common.
MaxId_ArgOnly(arg, common_ids) == arg

\* Lines 111 and 112: the argument when given, else the end of common, else None.
MinId(arg, common_ids) ==
    IF arg # None THEN arg
    ELSE IF common_ids # <<>> THEN Some(MinOf(common_ids)) ELSE None
MaxId(arg, common_ids) ==
    IF arg # None THEN arg
    ELSE IF common_ids # <<>> THEN Some(MaxOf(common_ids)) ELSE None

\* Mutant: gaps are never computed.
Gaps_None(exp, id_set) == <<>>

\* Lines 114 to 120: set(range(min_id, max_id + 1)), or None.
Expected(lo, hi) ==
    IF lo # None /\ hi # None THEN Some(lo[1]..hi[1]) ELSE None
Gaps(exp, id_set) ==
    IF exp # None THEN Sorted(exp[1] \ id_set) ELSE <<>>

\* Mutant: the metadata precondition is not tested.
NoMetaIds_Never(ids) == FALSE

\* Lines 95 and 99: "not image_ids", "not meta_ids"
NoImageIds(ids) == DOMAIN ids = {}
NoMetaIds(ids) == DOMAIN ids = {}

Critical(mi, mm, exp, gi, gm, bj) ==
    \/ mi # <<>>
    \/ mm # <<>>
    \/ (exp # None /\ (gi # <<>> \/ gm # <<>>))
    \/ bj # <<>>

\* ------------------------------------------------------------------ inputs
PngName(i) == StrOf(i) \o <<".", "p", "n", "g">>
JsonName(i) == StrOf(i) \o <<".", "j", "s", "o", "n">>

\* The attributes of both documents of the test, and a combination that
\* differs from it, for documents that are no duplicates of one another.
Traits1 == <<<<"Background", "Gold">>, <<"Body", "Blue">>>>
OtherTraits == <<<<"Background", "Gold">>, <<"Body", "Red">>>>

\* The documents the runs read, by kind, for the metadata file of token i.
DocOf(kind, i) ==
    CASE kind = "invalid" -> InvalidDoc
      [] kind = "array" -> ArrayDoc
      [] kind = "absent" -> ObjectDoc(AbsentField, Traits1)
      [] kind = "number" -> ObjectDoc(NumberField, Traits1)
      [] kind = "slash" -> ObjectDoc(StrField(<<"x", "/">> \o PngName(i)), Traits1)
      [] kind = "bare" -> ObjectDoc(StrField(PngName(i)), OtherTraits)
      [] kind = "upper" ->
            ObjectDoc(StrField(<<"X", "/">> \o StrOf(i) \o <<".", "P", "N", "G">>), OtherTraits)
      [] kind = "surrogate" -> ObjectDoc(StrField(<<Surrogate>>), Traits1)
      [] kind = "accent" ->
            ObjectDoc(StrField(<<Chr(\h00C9), "/">> \o StrOf(i) \o <<".", "P", "N", "G">>),
                      OtherTraits)
      [] kind = "longer" ->
            ObjectDoc(StrField(<<"x", "/">> \o StrOf(i) \o <<"0", ".", "p", "n", "g">>), OtherTraits)

\* Every directory of documents over a subset of the files; tokens gives each
\* file name the token its document is written for, kinds the kinds of
\* document the file can hold.
MetaDirs(tokens, kinds) ==
    UNION {{[n \in S |-> DocOf(k[n], tokens[n])] :
                k \in {f \in [S -> UNION {kinds[n] : n \in S}] : \A n \in S : f[n] \in kinds[n]}} :
              S \in SUBSET DOMAIN tokens}
OfKinds(tokens, K) == [n \in DOMAIN tokens |-> K]
\* The files 0.json to n.json, each written for its own token.
NumberedJson(n) ==
    [name \in {JsonName(i) : i \in 0..n} |-> CHOOSE i \in 0..n : JsonName(i) = name]

OptionalIds(n) == {None} \cup {Some(i) : i \in 0..n}

\* Working directories: a plain one, and one named after a test the way
\* pytest names its tmp_path ("test_duplicate_traits_are_dete0").
PlainDir == <<"/", "w">>
\* A working directory whose name holds a byte that is not UTF-8.
RawDir == <<"/", "w", Chr(\hDCFF)>>
TestDir == <<"/", "t", "e", "s", "t", "_", "d", "u", "p", "l", "i", "c", "a", "t", "e", "0">>

InitRun ==
    /\ pc = "scan"
    /\ img_dupes = {} /\ meta_dupes = {}
    /\ image_ids = <<>> /\ meta_ids = <<>>
    /\ missing_images = <<>> /\ missing_meta = <<>> /\ common = <<>>
    /\ min_id = None /\ max_id = None /\ expected = None
    /\ gap_images = <<>> /\ gap_meta = <<>>
    /\ bad_json = <<>> /\ mismatches = <<>>
    /\ pos = 0
    /\ opened = <<>>
    /\ output = <<>>
    /\ exit_code = None

\* Supply runs: numbered files only; each metadata file invalid or valid with
\* the expected image field, that of token 0 also valid with an image field
\* that cannot be printed; every combination of --min-id and --max-id in a working directory
\* with a plain name, no range argument in the other one.
Init ==
    /\ imagesDir \in SUBSET {PngName(i) : i \in 0..MaxTokenId}
    /\ metadataDir \in
          MetaDirs(NumberedJson(MaxTokenId),
                   [n \in DOMAIN NumberedJson(MaxTokenId) |->
                       IF n = JsonName(0) THEN {"invalid", "slash", "surrogate"}
                       ELSE {"invalid", "slash"}])
    /\ \/ /\ cwd = PlainDir
          /\ args \in [min_id : OptionalIds(MaxTokenId), max_id : OptionalIds(MaxTokenId),
                       check_image_field : BOOLEAN]
       \/ /\ cwd = RawDir
          /\ args \in [min_id : {None}, max_id : {None}, check_image_field : BOOLEAN]
    /\ InitRun

\* Image-field runs: numbered files, and a file of the metadata extension in
\* the images directory; every kind of document; no range arguments.
FieldKinds ==
    {"invalid", "array", "absent", "number", "slash", "bare", "upper", "longer",
     "surrogate", "accent"}
InitField ==
    /\ imagesDir \in SUBSET ({PngName(i) : i \in 0..MaxFileId} \cup {JsonName(0)})
    /\ metadataDir \in MetaDirs(NumberedJson(MaxFileId),
                                OfKinds(NumberedJson(MaxFileId), FieldKinds))
    /\ args \in [min_id : {None}, max_id : {None}, check_image_field : BOOLEAN]
    /\ cwd \in {PlainDir, RawDir}
    /\ InitRun

\* File-name runs: besides the numbered files, an upper-case twin of token 0
\* in each directory (a duplicate name once lower-cased, and a second file of
\* the same identifier), and at most one group of files with other names: a
\* name in Arabic-Indic digits (token 3), a pair that differs in the case of
\* an accented letter, a pair that differs in case and holds a byte that is
\* not UTF-8, a name that ends with a line feed.  The range arguments are
\* both absent or both given.
UpperPng == <<"0", ".", "P", "N", "G">>
UpperJson == <<"0", ".", "J", "S", "O", "N">>
ArabicPng == <<Chr(\h0663), ".", "p", "n", "g">>
ArabicJson == <<Chr(\h0663), ".", "j", "s", "o", "n">>
OtherImageFiles ==
    { {},
      {ArabicPng},
      {<<Chr(\h00C9), ".", "p", "n", "g">>, <<Chr(\h00E9), ".", "p", "n", "g">>},
      {<<Chr(\hDCFF), "A", ".", "p", "n", "g">>, <<Chr(\hDCFF), "a", ".", "p", "n", "g">>},
      {<<"1", ".", "p", "n", "g", Chr(10)>>} }
NamesImageDirs ==
    {S \cup X : S \in SUBSET ({PngName(i) : i \in 0..MaxFileId} \cup {UpperPng}),
                X \in OtherImageFiles}
NamesJson ==
    [name \in DOMAIN NumberedJson(MaxFileId) \cup {UpperJson, ArabicJson} |->
        IF name \in DOMAIN NumberedJson(MaxFileId) THEN NumberedJson(MaxFileId)[name]
        ELSE IF name = UpperJson THEN 0
        ELSE 3]
NamesMetaDirs == MetaDirs(NamesJson, OfKinds(NamesJson, {"slash", "surrogate"}))
NamesArgs ==
    [min_id : {None}, max_id : {None}, check_image_field : BOOLEAN]
    \cup [min_id : {Some(0)}, max_id : {Some(MaxFileId)}, check_image_field : BOOLEAN]
InitNames ==
    /\ imagesDir \in NamesImageDirs
    /\ metadataDir \in NamesMetaDirs
    /\ args \in NamesArgs
    /\ cwd \in {PlainDir, TestDir, RawDir}
    /\ InitRun

\* ----------------------------------------------------------------- actions
Emit(msgs) == output' = output \o msgs

\* print raises UnicodeEncodeError at line 73 on the path of the images
\* directory, at line 84 or 89 on a duplicate name.
PathRaises == Unencodable(cwd)
DupesRaise(dupes) == \E n \in dupes : Unencodable(n)
DupesHeader(dupes, header) == IF dupes # {} THEN <<header>> ELSE <<>>

\* Lines 70 to 93: the two directory paths, the duplicate report, the two scans.
Scan ==
    /\ pc = "scan"
    /\ ~PathRaises
    /\ img_dupes' = find_duplicates(imagesDir)
    /\ meta_dupes' = find_duplicates(DOMAIN metadataDir)
    /\ ~DupesRaise(img_dupes') /\ ~DupesRaise(meta_dupes')
    /\ Emit(<<"directories">>
             \o DupesHeader(img_dupes', "duplicate image filenames")
             \o DupesHeader(meta_dupes', "duplicate metadata filenames"))
    /\ image_ids' \in collect_ids(imagesDir, PngExts)
    /\ meta_ids' \in collect_ids(DOMAIN metadataDir, JsonExts)
    /\ pc' = "precondition"
    /\ UNCHANGED <<inputs, reconciled, bad_json, mismatches, pos, opened, exit_code>>

\* Lines 70 to 89, when print raises: the exception leaves main() before the
\* scans of lines 92 and 93, and the interpreter ends the process with its
\* traceback and status 1.
ScanRaises ==
    /\ pc = "scan"
    /\ IF PathRaises
       THEN /\ UNCHANGED <<img_dupes, meta_dupes>>
            /\ Emit(<<"traceback">>)
       ELSE /\ img_dupes' = find_duplicates(imagesDir)
            /\ meta_dupes' = find_duplicates(DOMAIN metadataDir)
            /\ DupesRaise(img_dupes') \/ DupesRaise(meta_dupes')
            /\ Emit(<<"directories">>
                     \o DupesHeader(img_dupes', "duplicate image filenames")
                     \o (IF DupesRaise(img_dupes') THEN <<>>
                         ELSE DupesHeader(meta_dupes', "duplicate metadata filenames"))
                     \o <<"traceback">>)
    /\ exit_code' = Some(1)
    /\ pc' = "done"
    /\ UNCHANGED <<inputs, image_ids, meta_ids, reconciled, bad_json, mismatches, pos,
                   opened>>

\* Lines 95 to 97
NoImages ==
    /\ pc = "precondition"
    /\ NoImageIds(image_ids)
    /\ Emit(<<"no png files found">>)
    /\ exit_code' = Some(1)
    /\ pc' = "done"
    /\ UNCHANGED <<inputs, scanned, reconciled, bad_json, mismatches, pos, opened>>

\* Lines 99 to 101
NoMetadata ==
    /\ pc = "precondition"
    /\ ~NoImageIds(image_ids)
    /\ NoMetaIds(meta_ids)
    /\ Emit(<<"no json files found">>)
    /\ exit_code' = Some(1)
    /\ pc' = "done"
    /\ UNCHANGED <<inputs, scanned, reconciled, bad_json, mismatches, pos, opened>>

\* Lines 103 to 146: the three lists, the expected range, the gaps, the summary.
Reconcile ==
    /\ pc = "precondition"
    /\ ~NoImageIds(image_ids)
    /\ ~NoMetaIds(meta_ids)
    /\ LET image_set == DOMAIN image_ids
           meta_set == DOMAIN meta_ids
       IN /\ missing_images' = MissingImages(image_set, meta_set)
          /\ missing_meta' = MissingMeta(image_set, meta_set)
          /\ common' = Common(image_set, meta_set)
          /\ min_id' = MinId(args.min_id, common')
          /\ max_id' = MaxId(args.max_id, common')
          /\ expected' = Expected(min_id', max_id')
          /\ gap_images' = Gaps(expected', image_set)
          /\ gap_meta' = Gaps(expected', meta_set)
    /\ Emit(<<"summary">>
             \o (IF missing_images' # <<>> THEN <<"missing images">> ELSE <<>>)
             \o (IF missing_meta' # <<>> THEN <<"missing metadata">> ELSE <<>>)
             \o (IF expected' # None /\ gap_images' # <<>> THEN <<"image gaps">> ELSE <<>>)
             \o (IF expected' # None /\ gap_meta' # <<>> THEN <<"metadata gaps">> ELSE <<>>))
    /\ pos' = 1
    /\ pc' = "json"
    /\ UNCHANGED <<inputs, scanned, bad_json, mismatches, opened, exit_code>>

\* Lines 150 to 153: one iteration of the JSON validity loop.
JsonCheck ==
    /\ pc = "json"
    /\ pos <= Len(common)
    /\ LET token_id == common[pos]
           res == try_load_json(metadataDir[meta_ids[token_id]])
       IN /\ opened' = Append(opened, meta_ids[token_id])
          /\ bad_json' = IF res[1] THEN bad_json
                         ELSE Append(bad_json, <<token_id, res[2]>>)
    /\ pos' = pos + 1
    /\ UNCHANGED <<inputs, pc, scanned, reconciled, mismatches, output, exit_code>>

\* Lines 155 to 167: the loop is over, its report, and the flag test.
JsonReport ==
    /\ pc = "json"
    /\ pos > Len(common)
    /\ Emit(IF bad_json # <<>> THEN <<"invalid json">> ELSE <<"all valid json">>)
    /\ pos' = 1
    /\ pc' = IF args.check_image_field THEN "image_field" ELSE "exit"
    /\ UNCHANGED <<inputs, scanned, reconciled, bad_json, mismatches, opened, exit_code>>

\* Lines 169 to 177: one iteration of the image-field loop.
ImageFieldCheck ==
    /\ pc = "image_field"
    /\ pos <= Len(common)
    /\ LET token_id == common[pos]
           res == CheckImageField(token_id, metadataDir[meta_ids[token_id]])
       IN /\ opened' = Append(opened, meta_ids[token_id])
          /\ mismatches' = IF res = None THEN mismatches ELSE Append(mismatches, res[1])
    /\ pos' = pos + 1
    /\ UNCHANGED <<inputs, pc, scanned, reconciled, bad_json, output, exit_code>>

\* mismatches[:10], the entries line 181 prints
MismatchPreview == 10
Preview(list) == SubSeq(list, 1, IF Len(list) < MismatchPreview THEN Len(list)
                                 ELSE MismatchPreview)
\* An entry whose value is a string is printed as it is; any other value and
\* the error text are printed through repr or str, which escape a surrogate.
PrintRaises(list) ==
    \E i \in 1..Len(Preview(list)) :
        /\ Preview(list)[i][2][1] = "str"
        /\ Unencodable(Preview(list)[i][2][2])

\* Lines 179 to 188
ImageFieldReport ==
    /\ pc = "image_field"
    /\ pos > Len(common)
    /\ ~PrintRaises(mismatches)
    /\ Emit(IF mismatches # <<>> THEN <<"image field mismatches">>
            ELSE <<"image fields consistent">>)
    /\ pc' = "exit"
    /\ UNCHANGED <<inputs, scanned, reconciled, bad_json, mismatches, pos, opened,
                   exit_code>>

\* Lines 180 to 182, when print raises on a value: the exception leaves main()
\* and the interpreter ends the process with its traceback and status 1.
ImageFieldReportRaises ==
    /\ pc = "image_field"
    /\ pos > Len(common)
    /\ PrintRaises(mismatches)
    /\ Emit(<<"image field mismatches", "traceback">>)
    /\ exit_code' = Some(1)
    /\ pc' = "done"
    /\ UNCHANGED <<inputs, scanned, reconciled, bad_json, mismatches, pos, opened>>

\* Lines 190 to 194
ExitFailed ==
    /\ pc = "exit"
    /\ Critical(missing_images, missing_meta, expected, gap_images, gap_meta, bad_json)
    /\ Emit(<<"validation failed">>)
    /\ exit_code' = Some(2)
    /\ pc' = "done"
    /\ UNCHANGED <<inputs, scanned, reconciled, bad_json, mismatches, pos, opened>>

\* Lines 196 and 197
ExitPassed ==
    /\ pc = "exit"
    /\ ~Critical(missing_images, missing_meta, expected, gap_images, gap_meta, bad_json)
    /\ Emit(<<"validation passed">>)
    /\ exit_code' = Some(0)
    /\ pc' = "done"
    /\ UNCHANGED <<inputs, scanned, reconciled, bad_json, mismatches, pos, opened>>

Next ==
    \/ Scan
    \/ ScanRaises
    \/ NoImages
    \/ NoMetadata
    \/ Reconcile
    \/ JsonCheck
    \/ JsonReport
    \/ ImageFieldCheck
    \/ ImageFieldReport
    \/ ImageFieldReportRaises
    \/ ExitFailed
    \/ ExitPassed

Spec == Init /\ [][Next]_vars
SpecField == InitField /\ [][Next]_vars
SpecNames == InitNames /\ [][Next]_vars

\* ------------------------------------------------------- shared vocabulary
Done == pc = "done"
\* image_set and meta_set of lines 103 and 104, the keys of the two scans
ImageSet == DOMAIN image_ids
MetaSet == DOMAIN meta_ids
PreconditionPassed == ~NoImageIds(image_ids) /\ ~NoMetaIds(meta_ids)
Printed(msg) == \E i \in 1..Len(output) : output[i] = msg
\* The scans of lines 92 and 93 were made: the run is past them and did not
\* end before them.
ScanRaised == Done /\ Printed("traceback") /\ ~Printed("summary")
ScanCompleted == pc # "scan" /\ ~ScanRaised
\* The identifiers the two directories hold, whether or not the run came to
\* scan them.
ImagesFound == CollectedIds(imagesDir, PngExts)
MetadataFound == CollectedIds(DOMAIN metadataDir, JsonExts)
IsReconciled == pc \in {"json", "image_field", "exit"} \/ (Done /\ PreconditionPassed)
Ascending(s) == \A i \in 1..(Len(s) - 1) : s[i] < s[i + 1]
\* The text of a file is JSON.
IsJson(doc) == doc.shape # "invalid"
Contains(s, w) == \E i \in 1..(Len(s) - Len(w) + 1) : SubSeq(s, i, i + Len(w) - 1) = w
BothGiven == args.min_id # None /\ args.max_id # None
NeitherGiven == args.min_id = None /\ args.max_id = None

\* ----------------------------------------------------------------- claims

\* C1: a finished run has exit code 1 if the scanned image ID set or the
\* scanned metadata ID set is empty; otherwise 2 if and only if one of
\* missing_images, missing_metadata, gap_images, gap_metadata or the
\* invalid-JSON list is non-empty; otherwise 0.  A running process has none.
C1_ExitCodeContract ==
    IF Done
    THEN exit_code =
            Some(IF ImagesFound = {} \/ MetadataFound = {} THEN 1
                 ELSE IF \/ missing_images # <<>> \/ missing_meta # <<>>
                         \/ gap_images # <<>> \/ gap_meta # <<>>
                         \/ bad_json # <<>>
                      THEN 2 ELSE 0)
    ELSE exit_code = None

\* C2 (the claim of the test): when two or more metadata files hold the same
\* combination of (trait_type, value) pairs, a run with default arguments
\* ends with a non-zero exit code and prints the word "duplicate" or
\* "unique", which only the two duplicate-file-name messages and the printed
\* directory paths can hold.
DuplicateTraits ==
    \E f, g \in DOMAIN metadataDir :
        /\ f # g
        /\ metadataDir[f].shape = "object" /\ metadataDir[g].shape = "object"
        /\ metadataDir[f].attributes = metadataDir[g].attributes
DefaultArgs == NeitherGiven /\ ~args.check_image_field
C2_DuplicateTraitsDetected ==
    (Done /\ DefaultArgs /\ DuplicateTraits) =>
        /\ exit_code # Some(0)
        /\ \/ Printed("duplicate image filenames")
           \/ Printed("duplicate metadata filenames")
           \/ /\ Printed("directories")
              /\ \/ Contains(Lower(cwd), <<"d", "u", "p", "l", "i", "c", "a", "t", "e">>)
                 \/ Contains(Lower(cwd), <<"u", "n", "i", "q", "u", "e">>)

\* C3: after reconciliation common = I \cap M, missing_images = M \ I and
\* missing_metadata = I \ M, each ascending; the three are pairwise disjoint
\* and their union is I \cup M.
C3_ReconcilePartition ==
    IsReconciled =>
        /\ ImageSet # {} /\ MetaSet # {}
        /\ Range(common) = ImageSet \cap MetaSet
        /\ Range(missing_images) = MetaSet \ ImageSet
        /\ Range(missing_meta) = ImageSet \ MetaSet
        /\ Ascending(common) /\ Ascending(missing_images) /\ Ascending(missing_meta)
        /\ Range(common) \cap Range(missing_images) = {}
        /\ Range(common) \cap Range(missing_meta) = {}
        /\ Range(missing_images) \cap Range(missing_meta) = {}
        /\ Range(common) \cup Range(missing_images) \cup Range(missing_meta)
              = ImageSet \cup MetaSet
C3_Witness ==
    /\ IsReconciled
    /\ common # <<>> /\ missing_images # <<>> /\ missing_meta # <<>>

\* C4: with both --min-id and --max-id given, gap_images is {min_id..max_id}
\* minus the image ID set and gap_metadata is {min_id..max_id} minus the
\* metadata ID set, ascending, whatever the ends of common are.
C4_ExplicitRangeVerbatim ==
    (IsReconciled /\ BothGiven) =>
        LET given == args.min_id[1]..args.max_id[1]
        IN /\ Range(gap_images) = given \ ImageSet
           /\ Range(gap_meta) = given \ MetaSet
           /\ Ascending(gap_images) /\ Ascending(gap_meta)
\* An explicit range that holds no present ID: both gap lists are the range.
C4_Witness ==
    /\ IsReconciled /\ BothGiven
    /\ common # <<>>
    /\ args.min_id[1] < args.max_id[1]
    /\ (args.min_id[1]..args.max_id[1]) \cap (ImageSet \cup MetaSet) = {}
    /\ Range(gap_images) = args.min_id[1]..args.max_id[1]
    /\ gap_meta = gap_images

\* C5 as stated: whenever gap checks are performed the expected range is the
\* explicitly supplied interval or the interval [min(common), max(common)];
\* with common empty and no argument given there is no range and no gap.
C5_RangeExplicitOrInferred ==
    IsReconciled =>
        /\ expected # None =>
              \/ BothGiven /\ expected[1] = args.min_id[1]..args.max_id[1]
              \/ common # <<>> /\ expected[1] = MinOf(common)..MaxOf(common)
        /\ (common = <<>> /\ NeitherGiven) =>
              expected = None /\ gap_images = <<>> /\ gap_meta = <<>>
\* C5 amended: each end of the expected range is the argument when it is
\* given and the matching end of common otherwise; gap checks are performed
\* exactly when both ends are known that way; with common empty and no
\* argument given there is no range and no gap.
C5_RangeEndsExplicitOrInferred ==
    IsReconciled =>
        LET lo_known == args.min_id # None \/ common # <<>>
            hi_known == args.max_id # None \/ common # <<>>
            lo == IF args.min_id # None THEN args.min_id[1] ELSE MinOf(common)
            hi == IF args.max_id # None THEN args.max_id[1] ELSE MaxOf(common)
        IN /\ (lo_known /\ hi_known) => expected = Some(lo..hi)
           /\ ~(lo_known /\ hi_known) =>
                 expected = None /\ gap_images = <<>> /\ gap_meta = <<>>
           /\ (common = <<>> /\ NeitherGiven) =>
                 expected = None /\ gap_images = <<>> /\ gap_meta = <<>>
\* One end given and below common, the other inferred.
C5_Witness ==
    /\ IsReconciled
    /\ args.min_id # None /\ args.max_id = None
    /\ common # <<>>
    /\ args.min_id[1] < MinOf(common)
    /\ expected = Some(args.min_id[1]..MaxOf(common))

\* C6: a per-file failure never aborts the run.  Only metadata files of IDs in
\* common are ever opened; and a run whose precondition passed ends with exit
\* code 0 or 2, after the JSON pass opened the metadata file of every ID in
\* common, in order, with the invalid-JSON list exactly the common IDs whose
\* file is not JSON, and after the summary, the JSON report and the verdict
\* were printed.
JsonPass == SubSeq(opened, 1, Len(common))
C6_FailuresNeverAbort ==
    /\ \A i \in 1..Len(opened) :
          \E id \in ImageSet \cap MetaSet : opened[i] = meta_ids[id]
    /\ exit_code # None => Done
    /\ (Done /\ PreconditionPassed) =>
          /\ exit_code \in {Some(0), Some(2)}
          /\ Len(opened) >= Len(common)
          /\ JsonPass = [i \in 1..Len(common) |-> meta_ids[common[i]]]
          /\ opened = IF args.check_image_field THEN JsonPass \o JsonPass ELSE JsonPass
          /\ [i \in 1..Len(bad_json) |-> bad_json[i][1]]
                = SelectSeq(common, LAMBDA id : ~IsJson(metadataDir[meta_ids[id]]))
          /\ Printed("summary")
          /\ Printed("invalid json") \/ Printed("all valid json")
          /\ output[Len(output)] \in {"validation failed", "validation passed"}

\* C7: a scan without image IDs ends the run with exit code 1 whatever the
\* metadata directory holds, and so does a scan with image IDs and without
\* metadata IDs; the run stops there: nothing is reconciled, no gap is
\* computed, no metadata file is opened, no summary is printed.  The scan
\* finds the identifiers the directories hold, and a run is never left
\* waiting after it.
C7_PreconditionAborts ==
    /\ (ScanCompleted /\ pc # "precondition") => (Done \/ PreconditionPassed)
    /\ pc = "precondition" => (ImageSet = ImagesFound /\ MetaSet = MetadataFound)
    /\ (Done /\ (ImagesFound = {} \/ MetadataFound = {})) =>
          /\ exit_code = Some(1)
          /\ opened = <<>>
          /\ missing_images = <<>> /\ missing_meta = <<>> /\ common = <<>>
          /\ min_id = None /\ max_id = None /\ expected = None
          /\ gap_images = <<>> /\ gap_meta = <<>>
          /\ bad_json = <<>> /\ mismatches = <<>>
          /\ ~Printed("summary")
          /\ ScanCompleted =>
                output[Len(output)] \in {"no png files found", "no json files found"}
\* No image IDs, a metadata directory with an invalid file, every option set.
C7_Witness ==
    /\ Done /\ ScanCompleted /\ exit_code = Some(1)
    /\ ImageSet = {} /\ MetaSet # {}
    /\ \E f \in DOMAIN metadataDir : ~IsJson(metadataDir[f])
    /\ BothGiven /\ args.check_image_field

\* C10: a run that exits with 0 found the same IDs in both directories and
\* every ID of the expected range among them; with neither --min-id nor
\* --max-id given, those IDs are the whole interval [min(common), max(common)].
C10_PassMeansComplete ==
    (Done /\ exit_code = Some(0)) =>
        /\ ImageSet = MetaSet
        /\ expected # None
        /\ expected[1] \subseteq ImageSet \cap MetaSet
        /\ NeitherGiven => Range(common) = MinOf(common)..MaxOf(common)
\* A passing run over at least three IDs with no argument given.
C10_Witness ==
    /\ Done /\ exit_code = Some(0)
    /\ NeitherGiven
    /\ Len(common) >= 3

\* C8 is about the documents: it is checked under SpecField.
Recorded(id) == \E i \in 1..Len(mismatches) : mismatches[i][1] = id
EntryOf(id) == mismatches[CHOOSE i \in 1..Len(mismatches) : mismatches[i][1] = id]
DocOfId(id) == metadataDir[meta_ids[id]]
FieldPassDone ==
    /\ args.check_image_field
    /\ pc = "exit" \/ (Done /\ PreconditionPassed)
IdPng(id) == StrOf(id) \o <<".", "p", "n", "g">>

\* C8 as stated: with --check-image-field, a mismatch is recorded for an ID of
\* common if and only if the image field is absent, is not a string, or does
\* not end with "<ID>.png", or the file cannot be parsed.
C8_MismatchIffNotEndingWithIdPng ==
    FieldPassDone =>
        \A id \in Range(common) :
            Recorded(id) <=>
                \/ ~IsJson(DocOfId(id))
                \/ DocOfId(id).image = AbsentField
                \/ DocOfId(id).image[1] # "str"
                \/ ~EndsWith(DocOfId(id).image[2], IdPng(id))
\* C8 amended: the same, the ending compared without regard to case; an
\* unparseable file is recorded with the error text; each ID is recorded at
\* most once, in the order of common.
C8_MismatchIffNotEndingWithIdPngAnyCase ==
    FieldPassDone =>
        /\ \A id \in Range(common) :
              /\ Recorded(id) <=>
                    \/ ~IsJson(DocOfId(id))
                    \/ DocOfId(id).image = AbsentField
                    \/ DocOfId(id).image[1] # "str"
                    \/ ~EndsWith(Lower(DocOfId(id).image[2]), IdPng(id))
              /\ ~IsJson(DocOfId(id)) => EntryOf(id) = <<id, <<"error reading">>>>
        /\ Ascending([i \in 1..Len(mismatches) |-> mismatches[i][1]])
        /\ \A i \in 1..Len(mismatches) : mismatches[i][1] \in Range(common)
\* The two examples of the claim, on two IDs of one run: "x/<ID>.png" records
\* nothing, "x/<ID>0.png" records a mismatch.
C8_Witness ==
    /\ FieldPassDone
    /\ \E id, other \in Range(common) :
          /\ DocOfId(id).image = StrField(<<"x", "/">> \o IdPng(id))
          /\ ~Recorded(id)
          /\ DocOfId(other).image = StrField(<<"x", "/">> \o StrOf(other) \o <<"0">> \o
                                             <<".", "p", "n", "g">>)
          /\ Recorded(other)

\* C9: the exit code is a function of the image ID set, the metadata ID set,
\* --min-id, --max-id and the set of common IDs whose metadata file is not
\* JSON, and of nothing else: not of duplicate file names, not of
\* --check-image-field, not of the image fields.  Checked under SpecNames,
\* whose runs differ in all three.  Where a directory holds two files of one
\* ID, the file the scan kept is the one whose parseability counts.
ExitFunction(I, M, lo, hi, unparseable) ==
    IF I = {} \/ M = {} THEN 1
    ELSE LET co == I \cap M
             known == (lo # None \/ co # {}) /\ (hi # None \/ co # {})
             l == IF lo # None THEN lo[1] ELSE CHOOSE x \in co : \A y \in co : x <= y
             h == IF hi # None THEN hi[1] ELSE CHOOSE x \in co : \A y \in co : x >= y
         IN IF \/ I # M
               \/ known /\ ~((l..h) \subseteq co)
               \/ unparseable # {}
            THEN 2 ELSE 0
C9_ExitCodeIgnoresReportOnlyInputs ==
    Done =>
        \E kept \in (IF ScanCompleted THEN {meta_ids}
                     ELSE collect_ids(DOMAIN metadataDir, JsonExts)) :
            exit_code =
                Some(ExitFunction(ImagesFound, MetadataFound, args.min_id, args.max_id,
                        {id \in ImagesFound \cap MetadataFound :
                            ~IsJson(metadataDir[kept[id]])}))
====
